---- MODULE Spec2Model ----
(***************************************************************************)
(* A model of the NBA data pipeline: the leakage-free feature deriver, the *)
(* opponent mirror and the feature catalog (src/nba/preprocessing.py), the *)
(* game-log cache synchronizer (src/nba/eda.py), the injury synchronizer   *)
(* (src/nba/get_injuries.py) and the quality filter                        *)
(* (src/nba/data_cleaning.py).                                             *)
(*                                                                         *)
(* A DataFrame is a sequence of rows (records); a missing float is NaN.    *)
(* Means are exact rationals kept as reduced pairs <<numerator, denom>>;   *)
(* NaN is <<0, 0>>.  Floating-point rounding is not modelled.              *)
(***************************************************************************)
EXTENDS Integers, Sequences, FiniteSets, Bags, TLC

VARIABLES
    \* ---- create_pregame_features ----
    config,     \* the feature catalog read by load_feature_config
    data,       \* the DataFrame handed to create_pregame_features
    data2,      \* a second input, differing from data in statistics / row order
    result,     \* create_pregame_features(data)
    result2,    \* create_pregame_features(data2)
    dpc,        \* "input" before the call, "returned" after it
    \* ---- add_opponent_features ----
    mdata,      \* the DataFrame handed to add_opponent_features
    mresult,    \* add_opponent_features(mdata)
    mpc,        \* "input" before the call, "returned" after it
    \* ---- get_league_game_log / get_multiple_seasons ----
    cacheFile,  \* season -> the pickled game_log_<season>.pkl, or no file
    today,      \* datetime.now().date(), as a day number
    last,       \* the last get_league_game_log call: arguments and outcome
    multi,      \* the last get_multiple_seasons call: arguments and outcome
    \* ---- get_season_game_injuries ----
    injCache,              \* season -> the pickled injuries_cache_<season>.pkl, or no file
    torn,                  \* the seasons whose cache file was cut off while it was written
    gamelog,               \* the game log handed to the running call
    ipc,                   \* where the call stands: idle, season, row, combine, done, killed, raised
    seasonsLeft,           \* the seasons the outer loop has still to process
    season_gamelog,        \* the rows of the current season
    rowIdx,                \* the row of season_gamelog the inner loop stands at
    attempt,               \* the retry loop's counter
    games_processed,       \* games fetched successfully in the current season
    processed_games,       \* game ids taken as already processed
    season_injuries,       \* the current season's injury frame
    all_seasons_injuries,  \* the frames of the seasons done
    iret,                  \* the frame the call returned
    watched,               \* the game whose fetch calls the run's history keeps
    hist,                  \* the fetch calls made for the watched game in this run
    called,                \* a fetch call has been made in this run
    startCache,            \* the cache files as they were when the run began
    fetchedRows,           \* season -> the rows the run's successful fetches returned
    completed,             \* games fetched successfully by the runs on this game log
    \* ---- the feature catalog, by column names ----
    catalog,    \* the feature catalog read by load_feature_config
    columns,    \* the column names of the data at this point of the pipeline
    did,        \* which of create_pregame_features / add_opponent_features ran
    lastCall,   \* the last call on the catalog: which function, and its outcome
    prevSelect, \* the get_feature_columns call before the last one
    \* ---- clean_data ----
    cparams,    \* na_threshold and the numeric columns of the data
    cdata,      \* the DataFrame handed to clean_data
    cdataAfter, \* that DataFrame after the call
    cout,       \* clean_data(cdata)
    creport,    \* what the steps of clean_data(cdata) removed
    cout2,      \* clean_data(cout)
    cpc,        \* "input", "cleaned", "recleaned"
    \* ---- merge_injuries_with_games ----
    jlog,       \* the game log handed to merge_injuries_with_games
    jinj,       \* the injuries log handed to it, or None
    jlogAfter,  \* the game log after the call
    jinjAfter,  \* the injuries log after the call
    jout,       \* merge_injuries_with_games(jlog, jinj)
    jpc         \* "input" before the call, "returned" after it

deriveVars == <<config, data, data2, result, result2, dpc>>
mirrorVars == <<mdata, mresult, mpc>>
syncVars == <<cacheFile, today, last, multi>>
injRunVars == <<gamelog, ipc, seasonsLeft, season_gamelog, rowIdx, attempt, games_processed,
                processed_games, season_injuries, all_seasons_injuries, iret,
                watched, hist>>
injHistVars == <<called, startCache, fetchedRows, completed>>
injVars == <<injCache, torn, injRunVars, injHistVars>>
catalogVars == <<catalog, columns, did, lastCall, prevSelect>>
cleanVars == <<cparams, cdata, cdataAfter, cout, creport, cout2, cpc>>
mergeVars == <<jlog, jinj, jlogAfter, jinjAfter, jout, jpc>>
pureVars == <<catalogVars, cleanVars, mergeVars>>
vars == <<deriveVars, mirrorVars, syncVars, injVars, pureVars>>

(***************************************************************************)
(* Bounds of the model.                                                    *)
(***************************************************************************)
MaxRows == 3            \* rows of the DataFrame given to create_pregame_features
MaxMirrorRows == 4      \* rows of the DataFrame given to add_opponent_features
MaxGames == 3           \* games of one season the provider can publish
MaxInjGames == 2        \* games of the first season in a game log given to the injury sync
MaxCleanRows == 3       \* rows of the DataFrame given to clean_data
MaxMergeRows == 3       \* rows of each frame given to merge_injuries_with_games

Teams == {1, 2}
GameDates == {1, 2, 3}
StatValues == {10, 20}
RollingWindows == {1, 2}

Max(a, b) == IF a >= b THEN a ELSE b
Min(a, b) == IF a <= b THEN a ELSE b

RECURSIVE GCD(_, _)
GCD(a, b) == IF b = 0 THEN a ELSE GCD(b, a % b)

NaN == <<0, 0>>
IsNaN(c) == c[2] = 0
Frac(s, n) == IF n = 0 THEN NaN ELSE <<s \div GCD(s, n), n \div GCD(s, n)>>

RECURSIVE SeqSum(_)
SeqSum(s) == IF s = <<>> THEN 0 ELSE Head(s) + SeqSum(Tail(s))

SeqOfSeqsUpTo(S, n) == UNION {[1..k -> S] : k \in 0..n}

(***************************************************************************)
(* create_pregame_features                                                 *)
(***************************************************************************)

\* pd.to_datetime on one GAME_DATE cell: a date string or a Timestamp becomes
\* the Timestamp of the same day.
ToDatetime(d) == [repr |-> "ts", day |-> d.day]

\* data["GAME_DATE"] = pd.to_datetime(data["GAME_DATE"])
ConvertDates(df) == [i \in 1..Len(df) |-> [df[i] EXCEPT !.GAME_DATE = ToDatetime(@)]]

\* the sort key of sort_values(["TEAM_ID", "GAME_DATE"]): lexicographic
KeyLess(a, b) ==
    \/ a.TEAM_ID < b.TEAM_ID
    \/ a.TEAM_ID = b.TEAM_ID /\ a.GAME_DATE.day < b.GAME_DATE.day

\* insert row r after every row that does not sort after it (stable)
RECURSIVE InsertSorted(_, _)
InsertSorted(s, r) ==
    IF s = <<>> THEN <<r>>
    ELSE IF KeyLess(r, Head(s)) THEN <<r>> \o s
    ELSE <<Head(s)>> \o InsertSorted(Tail(s), r)

\* sort_values on several columns is a lexsort, which is stable: rows with
\* equal (TEAM_ID, GAME_DATE) keep their input order.
RECURSIVE SortValues(_)
SortValues(df) ==
    IF df = <<>> THEN <<>>
    ELSE InsertSorted(SortValues(SubSeq(df, 1, Len(df) - 1)), df[Len(df)])

\* Series.shift(1): every value moves one position down, the first is NaN
Shift1(x) == [i \in 1..Len(x) |-> IF i = 1 THEN NaN ELSE x[i - 1]]

\* the non-NaN observations of x[lo..hi]
Observations(x, lo, hi) == SelectSeq(SubSeq(x, lo, hi), LAMBDA c : ~IsNaN(c))

\* Series.rolling(window=w, min_periods=1).mean(): at position i the mean of
\* the non-NaN values among the last w positions, NaN when there are none
RollingMean(x, w) ==
    [i \in 1..Len(x) |->
        LET obs == Observations(x, Max(1, i - w + 1), i)
        IN  IF Len(obs) >= 1
            THEN Frac(SeqSum([j \in 1..Len(obs) |-> obs[j][1]]), Len(obs))
            ELSE NaN]

\* lambda x: x.shift(1).rolling(window=rolling_window, min_periods=1).mean()
ShiftedRollingMeanLeaky(x, w) == RollingMean(x, w)
ShiftedRollingMean(x, w) == RollingMean(Shift1(x), w)

\* the positions of df that belong to the group of row i (same TEAM_ID)
GroupIndex(df, i) == SelectSeq([j \in 1..Len(df) |-> j],
                               LAMBDA j : df[j].TEAM_ID = df[i].TEAM_ID)

\* position of value v in the sequence of distinct values s
PosIn(s, v) == CHOOSE k \in 1..Len(s) : s[k] = v

\* data.groupby("TEAM_ID")[stat].transform(f): f is applied to each team's
\* series (in frame order) and the values are put back at the rows' positions
GroupTransform(df, w) ==
    [i \in 1..Len(df) |->
        LET g == GroupIndex(df, i)
            x == [k \in 1..Len(g) |-> <<df[g[k]].PTS, 1>>]
        IN  ShiftedRollingMean(x, w)[PosIn(g, i)]]

\* the feature columns the loop over config["feature_types"] creates
PregameFeatures(df, cfg) ==
    LET on == \E t \in 1..Len(cfg.feature_types) :
                  /\ cfg.feature_types[t].enabled
                  /\ cfg.feature_types[t].name = "rolling_avg"
        col == GroupTransform(df, cfg.rolling_window)
    IN  [i \in 1..Len(df) |-> IF on THEN [PTS_ROLL |-> col[i]] ELSE <<>>]

\* create_pregame_features: copy, convert dates, sort, derive, concat
SortSkipped(df) == df
SortedFrame(df) == SortValues(df)

CreatePregameFeatures(df, cfg) ==
    LET sorted == SortedFrame(ConvertDates(df))
        feats  == PregameFeatures(sorted, cfg)
    IN  [i \in 1..Len(sorted) |->
            [KEY |-> sorted[i].KEY, TEAM_ID |-> sorted[i].TEAM_ID,
             GAME_DATE |-> sorted[i].GAME_DATE, PTS |-> sorted[i].PTS,
             features |-> feats[i]]]

\* the input rows: team 1 with every statistic, the other teams with one
RawRows == [TEAM_ID : {1}, GAME_DATE : GameDates, PTS : StatValues]
           \cup [TEAM_ID : Teams \ {1}, GAME_DATE : GameDates, PTS : {20}]

\* a frame whose i-th row is keyed i
Keyed(s) == [i \in 1..Len(s) |->
                [KEY |-> i, TEAM_ID |-> s[i].TEAM_ID,
                 GAME_DATE |-> [repr |-> "str", day |-> s[i].GAME_DATE],
                 PTS |-> s[i].PTS]]

Configs == [rolling_window : RollingWindows,
            feature_types : {<<[name |-> "rolling_avg", enabled |-> TRUE]>>}]

Seasons == {1, 2}

NoFile == [exists |-> FALSE, rows |-> <<>>]
File(rows) == [exists |-> TRUE, rows |-> rows]

NoCall == [season |-> 0, use_cache |-> FALSE, force_refresh |-> FALSE, now |-> 0,
           fetch |-> "none", fetched |-> <<>>, before |-> NoFile,
           outcome |-> "none", ret |-> <<>>]
NoMultiCall == [seasons |-> <<>>, singles |-> <<>>, outcome |-> "none", ret |-> <<>>]

MirrorIdle == /\ mdata = <<>> /\ mresult = <<>> /\ mpc = "idle"

\* the game ids a game log can hold: those of season 1, and one of season 2
InjGames == 1..(MaxInjGames + 1)

InjIdle ==
    /\ injCache = [s \in Seasons |-> NoFile]
    /\ gamelog = <<>>
    /\ ipc = "idle"
    /\ seasonsLeft = <<>>
    /\ season_gamelog = <<>>
    /\ rowIdx = 0
    /\ attempt = 0
    /\ games_processed = 0
    /\ processed_games = {}
    /\ season_injuries = <<>>
    /\ all_seasons_injuries = <<>>
    /\ iret = <<>>
    /\ watched = 1
    /\ hist = <<>>
    /\ torn = {}
    /\ called = FALSE
    /\ startCache = [s \in Seasons |-> NoFile]
    /\ fetchedRows = [s \in Seasons |-> <<>>]
    /\ completed = {}

NoCatalogCall == [op |-> "none", outcome |-> "none", computed |-> <<>>, ret |-> <<>>,
                  before |-> <<>>]

CatalogIdle ==
    /\ catalog = [stat_columns |-> <<>>, feature_types |-> <<>>, additional_features |-> <<>>]
    /\ columns = <<>>
    /\ did = {}
    /\ lastCall = NoCatalogCall
    /\ prevSelect = NoCatalogCall

NoFrame == [columns |-> <<>>, rows |-> <<>>]
NoReport == [after_target |-> <<>>, high_na_cols |-> <<>>, all_zero_cols |-> <<>>]

CleanIdle ==
    /\ cparams = [na_threshold |-> <<1, 2>>, numeric |-> {}]
    /\ cdata = NoFrame
    /\ cdataAfter = NoFrame
    /\ cout = NoFrame
    /\ creport = NoReport
    /\ cout2 = NoFrame
    /\ cpc = "idle"

\* injuries_log is None
NoInjuriesLog == [present |-> FALSE, rows |-> <<>>]

MergeIdle ==
    /\ jlog = <<>>
    /\ jinj = NoInjuriesLog
    /\ jlogAfter = <<>>
    /\ jinjAfter = NoInjuriesLog
    /\ jout = <<>>
    /\ jpc = "idle"

PureIdle == CatalogIdle /\ CleanIdle /\ MergeIdle

SyncIdle ==
    /\ cacheFile = [s \in Seasons |-> NoFile]
    /\ today = 1
    /\ last = NoCall
    /\ multi = NoMultiCall

InitDerive ==
    /\ config \in Configs
    /\ \E s \in SeqOfSeqsUpTo(RawRows, MaxRows) : data = Keyed(s)
    /\ data2 = data
    /\ result = <<>>
    /\ result2 = <<>>
    /\ dpc = "input"
    /\ MirrorIdle
    /\ SyncIdle
    /\ InjIdle
    /\ PureIdle

\* the second input gets another statistic on one row
TamperStat ==
    /\ dpc = "input"
    /\ data2 = data
    /\ \E i \in 1..Len(data2), v \in StatValues :
          /\ v # data2[i].PTS
          /\ data2' = [data2 EXCEPT ![i].PTS = v]
    /\ UNCHANGED <<config, data, result, result2, dpc, mirrorVars, pureVars, syncVars, injVars>>

\* the second input gets two neighbouring rows exchanged
TamperOrder ==
    /\ dpc = "input"
    /\ data2 = data
    /\ \E i \in 1..(Len(data2) - 1) :
          data2' = [data2 EXCEPT ![i] = data2[i + 1], ![i + 1] = data2[i]]
    /\ UNCHANGED <<config, data, result, result2, dpc, mirrorVars, pureVars, syncVars, injVars>>

Derive ==
    /\ dpc = "input"
    /\ result' = CreatePregameFeatures(data, config)
    /\ result2' = CreatePregameFeatures(data2, config)
    /\ dpc' = "returned"
    /\ UNCHANGED <<config, data, data2, mirrorVars, pureVars, syncVars, injVars>>

NextDerive == TamperStat \/ TamperOrder \/ Derive

SpecDerive == InitDerive /\ [][NextDerive]_vars

(***************************************************************************)
(* Properties of create_pregame_features                                   *)
(***************************************************************************)
RECURSIVE SetSum(_, _)
SetSum(df, J) == IF J = {} THEN 0
                 ELSE LET j == CHOOSE x \in J : TRUE
                      IN  df[j].PTS + SetSum(df, J \ {j})

SameTeam(df, i, j) == df[i].TEAM_ID = df[j].TEAM_ID

\* row i is the k-th game of its team in date order (input order within a date)
TeamPos(df, i) ==
    1 + Cardinality({j \in 1..Len(df) :
            /\ SameTeam(df, i, j)
            /\ \/ df[j].GAME_DATE.day < df[i].GAME_DATE.day
               \/ df[j].GAME_DATE.day = df[i].GAME_DATE.day /\ j < i})

\* the team's games at positions max(1, k - window) .. k - 1
PrecedingGames(df, i, w) ==
    {j \in 1..Len(df) :
        /\ SameTeam(df, i, j)
        /\ TeamPos(df, j) >= Max(1, TeamPos(df, i) - w)
        /\ TeamPos(df, j) <= TeamPos(df, i) - 1}

OutRow(res, key) == res[CHOOSE i \in 1..Len(res) : res[i].KEY = key]

RollingEnabled(cfg) ==
    \E t \in 1..Len(cfg.feature_types) :
        cfg.feature_types[t].enabled /\ cfg.feature_types[t].name = "rolling_avg"

\* C1: for every team and every game of that team, the rolling feature is the
\* mean of the statistic over the team's up-to-rolling_window immediately
\* preceding games in date order, never the game's own value, and it is
\* missing for the team's first game.
C1_RollingMeanOfPrecedingGames ==
    (dpc = "returned" /\ RollingEnabled(config)) =>
        /\ Len(result) = Len(data)
        /\ \A i \in 1..Len(data) :
              /\ \E r \in 1..Len(result) : result[r].KEY = data[i].KEY
              /\ LET J == PrecedingGames(data, i, config.rolling_window)
                     f == OutRow(result, data[i].KEY).features.PTS_ROLL
                 IN  /\ TeamPos(data, i) = 1 => f = NaN
                     /\ TeamPos(data, i) > 1 =>
                            /\ Cardinality(J) = Min(config.rolling_window, TeamPos(data, i) - 1)
                            /\ f = Frac(SetSum(data, J), Cardinality(J))

\* C1 witness: window 2, one team's games given out of date order with PTS
\* 10, 20, 10 on days 1, 2, 3; the features are missing, 10, 15.
C1_Witness ==
    /\ dpc = "returned"
    /\ config.rolling_window = 2
    /\ Len(data) = 3
    /\ data[1].GAME_DATE.day = 3 /\ data[2].GAME_DATE.day = 1 /\ data[3].GAME_DATE.day = 2
    /\ \A i \in 1..3 : data[i].TEAM_ID = 1
    /\ data[1].PTS = 10 /\ data[2].PTS = 10 /\ data[3].PTS = 20
    /\ OutRow(result, 2).features.PTS_ROLL = NaN
    /\ OutRow(result, 3).features.PTS_ROLL = <<10, 1>>
    /\ OutRow(result, 1).features.PTS_ROLL = <<15, 1>>

\* the team's games dated strictly before game i, as (key, date, statistic)
EarlierGames(df, i) ==
    {<<df[j].KEY, df[j].GAME_DATE.day, df[j].PTS>> :
        j \in {j \in 1..Len(df) :
                  SameTeam(df, i, j) /\ df[j].GAME_DATE.day < df[i].GAME_DATE.day}}

InRow(df, key) == CHOOSE i \in 1..Len(df) : df[i].KEY = key

\* C2: every derived value on the row of game G of team T is a function only
\* of T's rows dated strictly before G: two inputs (in any row order) that
\* agree on those rows give the same derived values on G's row.
C2_OnlyStrictlyEarlierGames ==
    dpc = "returned" =>
        \A k \in 1..Len(data) :
            EarlierGames(data, InRow(data, k)) = EarlierGames(data2, InRow(data2, k))
                => OutRow(result, k).features = OutRow(result2, k).features

\* no team plays two games on one date
DistinctDatesPerTeam(df) ==
    \A i, j \in 1..Len(df) :
        (i # j /\ SameTeam(df, i, j)) => df[i].GAME_DATE.day # df[j].GAME_DATE.day

\* the same statement for inputs in which no team has two rows on one date
C2_HoldsWithDistinctDates ==
    (dpc = "returned" /\ DistinctDatesPerTeam(data)) =>
        \A k \in 1..Len(data) :
            EarlierGames(data, InRow(data, k)) = EarlierGames(data2, InRow(data2, k))
                => OutRow(result, k).features = OutRow(result2, k).features

(***************************************************************************)
(* add_opponent_features                                                   *)
(***************************************************************************)
MirrorGames == {1, 2}
MirrorTeams == {1, 2, 3}
MirrorValues == {10, 20}

RECURSIVE ConcatAll(_)
ConcatAll(ss) == IF ss = <<>> THEN <<>> ELSE Head(ss) \o ConcatAll(Tail(ss))

\* opponent_data = data[["GAME_ID", "TEAM_ID"] + opp_columns] with the
\* mirrored columns renamed to OPP_<column>
OpponentData(df) ==
    [i \in 1..Len(df) |->
        [GAME_ID |-> df[i].GAME_ID, TEAM_ID |-> df[i].TEAM_ID,
         OPP_PTS_ROLL |-> df[i].PTS_ROLL]]

\* data.merge(opponent_data, on="GAME_ID", suffixes=("", "_opp")): an inner
\* join, every left row paired with every right row of the same GAME_ID
MergeOnGameId(left, right) ==
    ConcatAll([i \in 1..Len(left) |->
        LET match == SelectSeq(right, LAMBDA o : o.GAME_ID = left[i].GAME_ID)
        IN  [j \in 1..Len(match) |->
                [GAME_ID |-> left[i].GAME_ID, TEAM_ID |-> left[i].TEAM_ID,
                 PTS_ROLL |-> left[i].PTS_ROLL,
                 TEAM_ID_opp |-> match[j].TEAM_ID,
                 OPP_PTS_ROLL |-> match[j].OPP_PTS_ROLL]]])

\* result[result["TEAM_ID"] != result["TEAM_ID_opp"]]
KeepSelfMatches(merged) == merged
DropSelfMatches(merged) == SelectSeq(merged, LAMBDA r : r.TEAM_ID # r.TEAM_ID_opp)

\* result.drop(columns=["TEAM_ID_opp"])
DropTeamIdOpp(df) ==
    [i \in 1..Len(df) |->
        [GAME_ID |-> df[i].GAME_ID, TEAM_ID |-> df[i].TEAM_ID,
         PTS_ROLL |-> df[i].PTS_ROLL, OPP_PTS_ROLL |-> df[i].OPP_PTS_ROLL]]

AddOpponentFeatures(df) ==
    DropTeamIdOpp(DropSelfMatches(MergeOnGameId(df, OpponentData(df))))

MirrorRows == [GAME_ID : MirrorGames, TEAM_ID : MirrorTeams, PTS_ROLL : MirrorValues]

DeriveIdle ==
    /\ config = [rolling_window |-> 1, feature_types |-> <<>>]
    /\ data = <<>> /\ data2 = <<>> /\ result = <<>> /\ result2 = <<>>
    /\ dpc = "idle"

InitMirror ==
    /\ mdata \in SeqOfSeqsUpTo(MirrorRows, MaxMirrorRows)
    /\ mresult = <<>>
    /\ mpc = "input"
    /\ DeriveIdle
    /\ SyncIdle
    /\ InjIdle
    /\ PureIdle

\* add_opponent_features has no raising path of its own: it always returns
Mirror ==
    /\ mpc = "input"
    /\ mresult' = AddOpponentFeatures(mdata)
    /\ mpc' = "returned"
    /\ UNCHANGED <<mdata, deriveVars, pureVars, syncVars, injVars>>

NextMirror == Mirror

SpecMirror == InitMirror /\ [][NextMirror]_vars

\* the rows of df that belong to game g
GameRowsOf(df, g) == {i \in 1..Len(df) : df[i].GAME_ID = g}

\* every game_id has exactly two rows, with distinct team_ids
TwoTeamsPerGame(df) ==
    \A g \in {df[i].GAME_ID : i \in 1..Len(df)} :
        /\ Cardinality(GameRowsOf(df, g)) = 2
        /\ \A i, j \in GameRowsOf(df, g) : i # j => df[i].TEAM_ID # df[j].TEAM_ID

\* C3: when every game_id has exactly two rows with distinct team_ids, the
\* mirror returns exactly one row per input row, and OPP_c on team X's row is
\* the value of c on team Y's row of the same game, and vice versa.
C3_MirrorsTheOpponent ==
    (mpc = "returned" /\ TwoTeamsPerGame(mdata)) =>
        /\ Len(mresult) = Len(mdata)
        /\ \A i \in 1..Len(mdata) :
              LET mine == {r \in 1..Len(mresult) :
                              /\ mresult[r].GAME_ID = mdata[i].GAME_ID
                              /\ mresult[r].TEAM_ID = mdata[i].TEAM_ID}
              IN  /\ Cardinality(mine) = 1
                  /\ \A r \in mine :
                        /\ mresult[r].PTS_ROLL = mdata[i].PTS_ROLL
                        /\ \A j \in GameRowsOf(mdata, mdata[i].GAME_ID) \ {i} :
                              mresult[r].OPP_PTS_ROLL = mdata[j].PTS_ROLL

\* C3 witness: two games of two teams each, the two teams of one game with
\* different feature values, mirrored
C3_Witness ==
    /\ mpc = "returned"
    /\ TwoTeamsPerGame(mdata)
    /\ Len(mdata) = 4
    /\ \E i, j \in 1..4 :
          /\ mdata[i].GAME_ID = mdata[j].GAME_ID
          /\ mdata[i].PTS_ROLL = 10 /\ mdata[j].PTS_ROLL = 20
          /\ \E r \in 1..Len(mresult) :
                /\ mresult[r].TEAM_ID = mdata[i].TEAM_ID
                /\ mresult[r].GAME_ID = mdata[i].GAME_ID
                /\ mresult[r].OPP_PTS_ROLL = 20

\* C4: a game_id with a number of team rows other than two (one row, three
\* rows, a duplicated team) makes the mirror surface a data-integrity fault:
\* the call does not return a result for such data.
C4_CardinalityFaultSurfaced ==
    mpc = "returned" => TwoTeamsPerGame(mdata)

\* what the mirror returns instead: for some game the number of returned
\* rows differs from the number of input rows (rows dropped or multiplied)
C4_RowsDroppedOrMultiplied ==
    (mpc = "returned" /\ ~TwoTeamsPerGame(mdata)) =>
        \E g \in MirrorGames :
            Cardinality(GameRowsOf(mresult, g)) # Cardinality(GameRowsOf(mdata, g))

(***************************************************************************)
(* get_league_game_log                                                     *)
(*                                                                         *)
(* The provider publishes the games 1..n of a season, game g on day g, one *)
(* row per team, GAME_DATE as a date string; its frames always carry the   *)
(* GAME_ID and GAME_DATE columns.                                          *)
(***************************************************************************)
LogTeams == {1, 2}
SyncSeasons == {1}

GameRow(g, t) == [GAME_ID |-> g, TEAM_ID |-> t,
                  GAME_DATE |-> [repr |-> "str", day |-> g]]

\* game_log.get_data_frames()[0] when the provider has published n games
ProviderRows(n) == ConcatAll([g \in 1..n |-> <<GameRow(g, 1), GameRow(g, 2)>>])

FetchFailure == [ok |-> FALSE, rows |-> <<>>]
FetchResults == {FetchFailure} \cup {[ok |-> TRUE, rows |-> ProviderRows(n)] : n \in 0..MaxGames}

\* pd.to_datetime(cached_data['GAME_DATE']).max() of a non-empty frame
LatestDate(rows) ==
    CHOOSE d \in {rows[i].GAME_DATE.day : i \in 1..Len(rows)} :
        \A i \in 1..Len(rows) : rows[i].GAME_DATE.day <= d

\* new_data[~new_data['GAME_ID'].isin(existing_game_ids)]
AllFetchedRows(cached, new_data) == new_data
NewGames(cached, new_data) ==
    SelectSeq(new_data,
              LAMBDA r : \A i \in 1..Len(cached) : cached[i].GAME_ID # r.GAME_ID)

\* the orders in which the rows I of df can follow one another by date
RECURSIVE DateOrders(_, _)
DateOrders(df, I) ==
    IF I = {} THEN {<<>>}
    ELSE LET first == {i \in I : \A j \in I : df[i].GAME_DATE.day <= df[j].GAME_DATE.day}
         IN  UNION {{<<i>> \o t : t \in DateOrders(df, I \ {i})} : i \in first}

\* df.sort_values('GAME_DATE').reset_index(drop=True): the default sort kind
\* is not stable, so rows of one date come out in any order
SortByDate(df) ==
    {[k \in 1..Len(df) |-> df[p[k]]] : p \in DateOrders(df, 1..Len(df))}

\* the except branch: the loaded cache, else the cache file, else re-raise
FetchFailedAlwaysRaises(cache, loaded) ==
    [fetch |-> "fail", outcome |-> "raised", ret |-> <<>>, cache |-> cache]
FetchFailed(cache, loaded) ==
    IF loaded \/ cache.exists
    THEN [fetch |-> "fail", outcome |-> "returned", ret |-> cache.rows, cache |-> cache]
    ELSE [fetch |-> "fail", outcome |-> "raised", ret |-> <<>>, cache |-> cache]

\* the merge of the loaded cache with a successful fetch, then the save
MergeWithCache(cached, fetched) ==
    LET new_data    == ConvertDates(fetched)
        cached_data == ConvertDates(cached)
        new_games   == NewGames(cached_data, new_data)
    IN  IF Len(new_games) > 0
        THEN {[fetch |-> "ok", outcome |-> "returned", ret |-> df, cache |-> File(df)] :
                 df \in SortByDate(cached_data \o new_games)}
        ELSE {[fetch |-> "ok", outcome |-> "returned", ret |-> cached_data,
               cache |-> File(cached_data)]}

\* get_league_game_log(season, use_cache, force_refresh) on the season's cache
\* file, with the provider answering `fetch` if it is asked, on day `now`:
\* the possible results (what is returned or raised, and the file afterwards)
GetLeagueGameLog(cache, use_cache, force_refresh, fetch, now) ==
    LET loaded == use_cache /\ cache.exists /\ ~force_refresh
    IN  IF loaded /\ cache.rows = <<>>
        \* latest_date is NaT and latest_date.strftime raises ValueError
        THEN {[fetch |-> "none", outcome |-> "raised", ret |-> <<>>, cache |-> cache]}
        ELSE IF loaded /\ ~(LatestDate(cache.rows) < now)
        THEN {[fetch |-> "none", outcome |-> "returned", ret |-> cache.rows, cache |-> cache]}
        ELSE IF ~fetch.ok
        THEN {FetchFailed(cache, loaded)}
        ELSE IF loaded
        THEN MergeWithCache(cache.rows, fetch.rows)
        ELSE {[fetch |-> "ok", outcome |-> "returned", ret |-> fetch.rows,
               cache |-> File(fetch.rows)]}

InitSync ==
    /\ SyncIdle
    /\ DeriveIdle
    /\ MirrorIdle
    /\ InjIdle
    /\ PureIdle

LogCall ==
    \E season \in SyncSeasons, use_cache \in BOOLEAN, force_refresh \in BOOLEAN,
       fetch \in FetchResults :
       \E out \in GetLeagueGameLog(cacheFile[season], use_cache, force_refresh, fetch, today) :
          /\ cacheFile' = [cacheFile EXCEPT ![season] = out.cache]
          /\ last' = [season |-> season, use_cache |-> use_cache,
                      force_refresh |-> force_refresh, now |-> today,
                      fetch |-> out.fetch,
                      fetched |-> IF out.fetch = "ok" THEN fetch.rows ELSE <<>>,
                      before |-> cacheFile[season],
                      outcome |-> out.outcome, ret |-> out.ret]
          /\ UNCHANGED <<today, multi, deriveVars, mirrorVars, pureVars, injVars>>

\* a day passes
Tick ==
    /\ today < MaxGames + 1
    /\ today' = today + 1
    /\ UNCHANGED <<cacheFile, last, multi, deriveVars, mirrorVars, pureVars, injVars>>

NextSync == LogCall \/ Tick

SpecSync == InitSync /\ [][NextSync]_vars

(***************************************************************************)
(* Properties of get_league_game_log                                       *)
(***************************************************************************)
GameIds(rows) == {rows[i].GAME_ID : i \in 1..Len(rows)}

\* how many rows of the frame are the record (game, team), whatever the type
\* of its date
CountRecord(rows, g, t) ==
    Cardinality({i \in 1..Len(rows) : rows[i].GAME_ID = g /\ rows[i].TEAM_ID = t})

\* the call found a cache that was older than the day of the call
FoundStaleCache(c) ==
    /\ c.use_cache /\ ~c.force_refresh
    /\ c.before.exists
    /\ c.before.rows # <<>>
    /\ \A i \in 1..Len(c.before.rows) : c.before.rows[i].GAME_DATE.day < c.now

\* C5: with a stale cache and a successful fetch the returned and persisted
\* dataset is cached U new keyed by game_id: every cached record is kept, every
\* fetched record of a game not in the cache is added, and no record of an
\* already cached game is added a second time.
C5_DedupMerge ==
    (last.outcome # "none" /\ FoundStaleCache(last) /\ last.fetch = "ok") =>
        /\ last.outcome = "returned"
        /\ cacheFile[last.season] = File(last.ret)
        /\ GameIds(last.ret) = GameIds(last.before.rows) \cup GameIds(last.fetched)
        /\ \A g \in 1..MaxGames, t \in LogTeams :
              CountRecord(last.ret, g, t) =
                  IF g \in GameIds(last.before.rows)
                  THEN CountRecord(last.before.rows, g, t)
                  ELSE CountRecord(last.fetched, g, t)

\* C5 witness: the cache holds games {1, 2}, the fetch returns {1, 2, 3}, and
\* the result holds exactly the six rows of {1, 2, 3}
C5_Witness ==
    /\ last.outcome = "returned" /\ FoundStaleCache(last) /\ last.fetch = "ok"
    /\ GameIds(last.before.rows) = {1, 2}
    /\ GameIds(last.fetched) = {1, 2, 3}
    /\ GameIds(last.ret) = {1, 2, 3}
    /\ Len(last.ret) = 6

\* C6: two successive calls for one season with force_refresh = false, the
\* provider returning the same rows to both, return identical datasets and
\* leave identical cache content.
C6_SecondCallIdentical ==
    [][(/\ last.outcome # "none"
        /\ last'.season = last.season
        /\ last'.use_cache = last.use_cache
        /\ ~last.force_refresh /\ ~last'.force_refresh
        /\ last.fetch = "ok" /\ last'.fetch = "ok"
        /\ last'.fetched = last.fetched)
       => (/\ last'.outcome = last.outcome
           /\ last'.ret = last.ret
           /\ cacheFile' = cacheFile)]_vars

\* from the second call on the statement holds: once a call has merged into a
\* loaded cache, a further call that is given the same rows changes nothing
C6_IdenticalAfterAMerge ==
    [][(/\ last.outcome # "none"
        /\ last'.season = last.season
        /\ ~last.force_refresh /\ ~last'.force_refresh
        /\ last.use_cache /\ last'.use_cache
        /\ last.before.exists
        /\ last.fetch = "ok" /\ last'.fetch = "ok"
        /\ last'.fetched = last.fetched)
       => (/\ last'.outcome = last.outcome
           /\ last'.ret = last.ret
           /\ cacheFile' = cacheFile)]_vars

\* C7: when the fetch fails and a cache exists for the season, the call
\* returns the cached dataset and leaves the cache file as it was; when no
\* cache exists the failure propagates.
C7_FetchFailureFallsBack ==
    (last.outcome # "none" /\ last.fetch = "fail") =>
        /\ cacheFile[last.season] = last.before
        /\ last.before.exists =>
              (last.outcome = "returned" /\ last.ret = last.before.rows)
        /\ ~last.before.exists => last.outcome = "raised"

\* C7 witness: a failed fetch answered from a non-empty cache that the call
\* had not loaded (force_refresh), after an earlier call wrote it
C7_Witness ==
    /\ last.fetch = "fail"
    /\ last.force_refresh
    /\ last.before.exists
    /\ Len(last.before.rows) = 4
    /\ last.outcome = "returned"
    /\ last.ret = last.before.rows

\* C13: across any sequence of calls (any use_cache and force_refresh, any
\* fetch result or failure) the set of game_ids held in a season's persisted
\* cache only grows: no call leaves the cache without a game_id it held.
C13_CachedGameIdsOnlyGrow ==
    [][\A s \in Seasons :
          GameIds(cacheFile[s].rows) \subseteq GameIds(cacheFile'[s].rows)]_vars

\* what the code keeps: a call that loads the cache (use_cache without
\* force_refresh) leaves every cached game_id in it
C13_GrowWhenTheCacheIsLoaded ==
    [][(last'.use_cache /\ ~last'.force_refresh) =>
          \A s \in Seasons :
              GameIds(cacheFile[s].rows) \subseteq GameIds(cacheFile'[s].rows)]_vars

(***************************************************************************)
(* get_multiple_seasons                                                    *)
(***************************************************************************)
SeasonLists == SeqOfSeqsUpTo(Seasons, 2)
MultiFetchResults == {FetchFailure, [ok |-> TRUE, rows |-> ProviderRows(0)],
                      [ok |-> TRUE, rows |-> ProviderRows(MaxGames)]}

\* df['SEASON'] = str(season)
TagSeason(rows, season) ==
    [i \in 1..Len(rows) |->
        [GAME_ID |-> rows[i].GAME_ID, TEAM_ID |-> rows[i].TEAM_ID,
         GAME_DATE |-> rows[i].GAME_DATE, SEASON |-> ToString(season)]]

\* the loop over the seasons: each get_league_game_log call sees the cache
\* files the earlier ones left; a call that raises is caught and reported
RECURSIVE LoadSeasons(_, _, _, _, _, _)
LoadSeasons(seasons, fetches, use_cache, force_refresh, now, caches) ==
    IF seasons = <<>> THEN {[caches |-> caches, singles |-> <<>>]}
    ELSE LET s == Head(seasons)
         IN  UNION {
               {[caches |-> rest.caches,
                 singles |-> <<[season |-> s, outcome |-> out.outcome, ret |-> out.ret]>>
                             \o rest.singles] :
                  rest \in LoadSeasons(Tail(seasons), Tail(fetches), use_cache,
                                       force_refresh, now,
                                       [caches EXCEPT ![s] = out.cache])} :
               out \in GetLeagueGameLog(caches[s], use_cache, force_refresh,
                                        Head(fetches), now)}

\* all_data: the tagged frames of the seasons that loaded, in order
AllData(singles) ==
    LET ok == SelectSeq(singles, LAMBDA c : c.outcome = "returned")
    IN  [i \in 1..Len(ok) |-> TagSeason(ok[i].ret, ok[i].season)]

\* raise ValueError when nothing loaded, else pd.concat(all_data)
CombineFailFast(singles) ==
    IF \E i \in 1..Len(singles) : singles[i].outcome = "raised"
    THEN [outcome |-> "raised", ret |-> <<>>]
    ELSE [outcome |-> "returned", ret |-> ConcatAll(AllData(singles))]
Combine(singles) ==
    IF AllData(singles) = <<>>
    THEN [outcome |-> "raised", ret |-> <<>>]
    ELSE [outcome |-> "returned", ret |-> ConcatAll(AllData(singles))]

MultiCall ==
    \E seasons \in SeasonLists, use_cache \in BOOLEAN, force_refresh \in BOOLEAN :
       \E fetches \in [1..Len(seasons) -> MultiFetchResults] :
          \E run \in LoadSeasons(seasons, fetches, use_cache, force_refresh, today, cacheFile) :
             /\ cacheFile' = run.caches
             /\ multi' = [seasons |-> seasons, singles |-> run.singles,
                          outcome |-> Combine(run.singles).outcome,
                          ret |-> Combine(run.singles).ret]
             /\ UNCHANGED <<today, last, deriveVars, mirrorVars, pureVars, injVars>>

NextMulti == MultiCall \/ Tick

SpecMulti == InitSync /\ [][NextMulti]_vars

\* the rows of the frame tagged with season s, without the tag
UntaggedRowsOf(rows, s) ==
    LET mine == SelectSeq(rows, LAMBDA r : r.SEASON = ToString(s))
    IN  [i \in 1..Len(mine) |->
            [GAME_ID |-> mine[i].GAME_ID, TEAM_ID |-> mine[i].TEAM_ID,
             GAME_DATE |-> mine[i].GAME_DATE]]

\* what the successful get_league_game_log calls for season s returned
LoadedRowsOf(singles, s) ==
    ConcatAll([i \in 1..Len(singles) |->
        IF singles[i].season = s /\ singles[i].outcome = "returned"
        THEN singles[i].ret ELSE <<>>])

\* C8: get_multiple_seasons raises only when get_league_game_log failed for
\* every requested season; otherwise it returns the rows of exactly the
\* successful seasons, each row tagged with its own season, and no row of a
\* failed season.
C8_PartialFailureTolerated ==
    multi.outcome # "none" =>
        /\ multi.outcome = "raised" <=>
              \A i \in 1..Len(multi.singles) : multi.singles[i].outcome = "raised"
        /\ multi.outcome = "returned" =>
              /\ \A s \in Seasons :
                    UntaggedRowsOf(multi.ret, s) = LoadedRowsOf(multi.singles, s)
              /\ \A i \in 1..Len(multi.ret) :
                    \E s \in Seasons : multi.ret[i].SEASON = ToString(s)
              /\ Len(multi.ret) =
                    SeqSum([i \in 1..Len(multi.singles) |->
                               IF multi.singles[i].outcome = "returned"
                               THEN Len(multi.singles[i].ret) ELSE 0])

\* C8 witness: of the seasons <<1, 2>> the first fails with no cache and the
\* second loads; the call returns the second season's rows, tagged "2"
C8_Witness ==
    /\ multi.outcome = "returned"
    /\ multi.seasons = <<1, 2>>
    /\ multi.singles[1].outcome = "raised"
    /\ multi.singles[2].outcome = "returned"
    /\ Len(multi.ret) = 2 * MaxGames
    /\ \A i \in 1..Len(multi.ret) : multi.ret[i].SEASON = "2"

(***************************************************************************)
(* get_season_game_injuries                                                *)
(*                                                                         *)
(* One action per step of the call: the start, the head of the season loop,*)
(* the head of the row loop, each call of get_single_game_injuries with    *)
(* its handling, and the final concat.  A call may follow a finished call. *)
(***************************************************************************)
max_retries == 3
InjuryCounts == {0, 1}

\* a game log: one row per team of each game; season 1 plays games 1..n, and
\* season 2, when it is there, the game MaxInjGames + 1
LogRow(s, g, t) == [SEASON |-> s, GAME_ID |-> g, TEAM_ID |-> t]
GameLogOf(n, second) ==
    ConcatAll([g \in 1..n |-> <<LogRow(1, g, 1), LogRow(1, g, 2)>>])
    \o (IF second THEN <<LogRow(2, MaxInjGames + 1, 1), LogRow(2, MaxInjGames + 1, 2)>>
        ELSE <<>>)
GameLogs == {GameLogOf(n, second) : n \in 0..MaxInjGames, second \in BOOLEAN}

\* sorted(gamelog["SEASON"].unique())
RECURSIVE SortedSeq(_)
SortedSeq(S) ==
    IF S = {} THEN <<>>
    ELSE LET m == CHOOSE x \in S : \A y \in S : x <= y
         IN  <<m>> \o SortedSeq(S \ {m})
SeasonsOf(log) == SortedSeq({log[i].SEASON : i \in 1..Len(log)})

\* gamelog[gamelog["SEASON"] == season].reset_index(drop=True)
SeasonGamelog(log, s) == SelectSeq(log, LAMBDA r : r.SEASON = s)

\* the frame get_single_game_injuries(game_id) returns: k inactive players
InjuryRows(g, k) == [i \in 1..k |-> [gameId |-> g, teamId |-> 1, player |-> i]]

\* pickle.load of the season's cache file, an empty frame when there is none
LoadInjuryCache(file) == IF file.exists THEN file.rows ELSE <<>>

\* set(season_injuries["gameId"].unique()), the empty set for an empty frame
ProcessedGames(frame) == {frame[i].gameId : i \in 1..Len(frame)}

\* total_games - cached_games
RemainingGames(sg, processed) ==
    Cardinality({sg[i].GAME_ID : i \in 1..Len(sg)}) - Cardinality(processed)

AfterSeason(left) == IF Tail(left) = <<>> THEN "combine" ELSE "season"

InitInj ==
    /\ InjIdle
    /\ PureIdle
    /\ DeriveIdle
    /\ MirrorIdle
    /\ SyncIdle

\* the run's local variables when no call is running
NoRun ==
    /\ seasonsLeft' = <<>>
    /\ season_gamelog' = <<>>
    /\ rowIdx' = 0
    /\ attempt' = 0
    /\ games_processed' = 0
    /\ processed_games' = {}
    /\ season_injuries' = <<>>
    /\ all_seasons_injuries' = <<>>
    /\ iret' = <<>>

\* the call begins: seasons = sorted(gamelog["SEASON"].unique())
StartRun ==
    /\ ipc \in {"idle", "done", "killed", "raised"}
    /\ \E log \in GameLogs :
          /\ gamelog' = log
          /\ seasonsLeft' = SeasonsOf(log)
          /\ ipc' = IF SeasonsOf(log) = <<>> THEN "combine" ELSE "season"
          /\ completed' = IF log = gamelog THEN completed ELSE {}
    /\ season_gamelog' = <<>>
    /\ rowIdx' = 0
    /\ attempt' = 0
    /\ games_processed' = 0
    /\ processed_games' = {}
    /\ season_injuries' = <<>>
    /\ all_seasons_injuries' = <<>>
    /\ iret' = <<>>
    /\ watched' \in InjGames
    /\ hist' = <<>>
    /\ called' = FALSE
    /\ startCache' = injCache
    /\ fetchedRows' = [s \in Seasons |-> <<>>]
    /\ UNCHANGED <<injCache, torn, deriveVars, mirrorVars, pureVars, syncVars>>

\* pickle.load of a cache file that was cut off raises EOFError or
\* UnpicklingError; only FileNotFoundError is caught, so the call raises
SeasonLoadRaises ==
    /\ ipc = "season"
    /\ Head(seasonsLeft) \in torn
    /\ ipc' = "raised"
    /\ NoRun
    /\ UNCHANGED <<injCache, torn, gamelog, watched, hist, injHistVars,
                   deriveVars, mirrorVars, pureVars, syncVars>>

\* the head of the season loop when remaining_games == 0: the cached frame
\* is taken as the season's result
SeasonAllCached ==
    /\ ipc = "season"
    /\ Head(seasonsLeft) \notin torn
    /\ LET s      == Head(seasonsLeft)
           sg     == SeasonGamelog(gamelog, s)
           cached == LoadInjuryCache(injCache[s])
       IN  /\ RemainingGames(sg, ProcessedGames(cached)) = 0
           /\ all_seasons_injuries' = Append(all_seasons_injuries, cached)
           /\ seasonsLeft' = Tail(seasonsLeft)
           /\ ipc' = AfterSeason(seasonsLeft)
    /\ UNCHANGED <<injCache, torn, gamelog, season_gamelog, rowIdx, attempt, games_processed,
                   processed_games, season_injuries, iret, watched, hist, injHistVars,
                   deriveVars, mirrorVars, pureVars, syncVars>>

\* the head of the season loop otherwise: load the cache, enter the row loop
SeasonBegin ==
    /\ ipc = "season"
    /\ Head(seasonsLeft) \notin torn
    /\ LET s      == Head(seasonsLeft)
           sg     == SeasonGamelog(gamelog, s)
           cached == LoadInjuryCache(injCache[s])
       IN  /\ RemainingGames(sg, ProcessedGames(cached)) # 0
           /\ season_gamelog' = sg
           /\ season_injuries' = cached
           /\ processed_games' = ProcessedGames(cached)
    /\ games_processed' = 0
    /\ rowIdx' = 1
    /\ attempt' = 0
    /\ ipc' = "row"
    /\ UNCHANGED <<injCache, torn, gamelog, seasonsLeft, all_seasons_injuries, iret,
                   watched, hist, injHistVars, deriveVars, mirrorVars, pureVars, syncVars>>

AtRow == ipc = "row" /\ rowIdx <= Len(season_gamelog)
CurrentGame == season_gamelog[rowIdx].GAME_ID

\* if game_id in processed_games: continue
SkipProcessedRow ==
    /\ AtRow
    /\ CurrentGame \in processed_games
    /\ rowIdx' = rowIdx + 1
    /\ UNCHANGED <<injCache, torn, gamelog, ipc, seasonsLeft, season_gamelog, attempt,
                   games_processed, processed_games, season_injuries,
                   all_seasons_injuries, iret, watched, hist, injHistVars,
                   deriveVars, mirrorVars, pureVars, syncVars>>

\* the retry loop stands before a call of get_single_game_injuries
AtFetch == AtRow /\ CurrentGame \notin processed_games /\ attempt < max_retries

\* the history after a call for the current game
Recorded(rec) == IF CurrentGame = watched THEN Append(hist, rec) ELSE hist

\* the call as the run's history keeps it: its result, whether the randomized
\* delay came before it (games_processed > 0), whether it follows a backoff,
\* and whether it is the first call of the run
FetchRecord(res, k) ==
    [result |-> res, rows |-> k, delay |-> games_processed > 0, backoff |-> attempt > 0,
     first |-> ~called]

\* the fetch succeeds: concat, mark processed, save the cache, leave the loop
FetchOk ==
    /\ AtFetch
    /\ \E k \in InjuryCounts :
          /\ season_injuries' = season_injuries \o InjuryRows(CurrentGame, k)
          /\ hist' = Recorded(FetchRecord("ok", k))
          /\ fetchedRows' = [fetchedRows EXCEPT ![Head(seasonsLeft)] = @ \o InjuryRows(CurrentGame, k)]
    /\ processed_games' = processed_games \cup {CurrentGame}
    /\ games_processed' = games_processed + 1
    /\ injCache' = [injCache EXCEPT ![Head(seasonsLeft)] = File(season_injuries')]
    /\ rowIdx' = rowIdx + 1
    /\ attempt' = 0
    /\ called' = TRUE
    /\ completed' = completed \cup {CurrentGame}
    /\ UNCHANGED <<torn, gamelog, ipc, seasonsLeft, season_gamelog, all_seasons_injuries, iret,
                   watched, startCache, deriveVars, mirrorVars, pureVars, syncVars>>

\* the row the loop goes to after a rate-limited failure
RetryAfterEveryFailure(a) == [row |-> rowIdx, attempt |-> 0]
AfterRateLimit(a) ==
    IF a < max_retries - 1
    THEN [row |-> rowIdx, attempt |-> a + 1]
    ELSE [row |-> rowIdx + 1, attempt |-> 0]

\* the fetch fails and the message names a rate limit: back off and retry,
\* or give the row up after max_retries attempts
FetchRateLimited ==
    /\ AtFetch
    /\ hist' = Recorded(FetchRecord("rate", 0))
    /\ rowIdx' = AfterRateLimit(attempt).row
    /\ attempt' = AfterRateLimit(attempt).attempt
    /\ called' = TRUE
    /\ UNCHANGED <<injCache, torn, gamelog, ipc, seasonsLeft, season_gamelog, games_processed,
                   processed_games, season_injuries, all_seasons_injuries, iret,
                   watched, startCache, fetchedRows, completed,
                   deriveVars, mirrorVars, pureVars, syncVars>>

\* the fetch fails in any other way: break, the row is given up at once
FetchError ==
    /\ AtFetch
    /\ hist' = Recorded(FetchRecord("error", 0))
    /\ rowIdx' = rowIdx + 1
    /\ attempt' = 0
    /\ called' = TRUE
    /\ UNCHANGED <<injCache, torn, gamelog, ipc, seasonsLeft, season_gamelog, games_processed,
                   processed_games, season_injuries, all_seasons_injuries, iret,
                   watched, startCache, fetchedRows, completed,
                   deriveVars, mirrorVars, pureVars, syncVars>>

\* the row loop is through: all_seasons_injuries.append(season_injuries)
SeasonEnd ==
    /\ ipc = "row"
    /\ rowIdx > Len(season_gamelog)
    /\ all_seasons_injuries' = Append(all_seasons_injuries, season_injuries)
    /\ seasonsLeft' = Tail(seasonsLeft)
    /\ ipc' = AfterSeason(seasonsLeft)
    /\ UNCHANGED <<injCache, torn, gamelog, season_gamelog, rowIdx, attempt, games_processed,
                   processed_games, season_injuries, iret, watched, hist, injHistVars,
                   deriveVars, mirrorVars, pureVars, syncVars>>

\* pd.concat(all_seasons_injuries), an empty frame when there is no season
Combine_Injuries ==
    /\ ipc = "combine"
    /\ iret' = ConcatAll(all_seasons_injuries)
    /\ ipc' = "done"
    /\ UNCHANGED <<injCache, torn, gamelog, seasonsLeft, season_gamelog, rowIdx, attempt,
                   games_processed, processed_games, season_injuries,
                   all_seasons_injuries, watched, hist, injHistVars,
                   deriveVars, mirrorVars, pureVars, syncVars>>

\* the process is terminated while the call runs, outside the write of a
\* cache file: the call's memory is gone, the files stay as they are
Terminate ==
    /\ ipc \in {"season", "row", "combine"}
    /\ ipc' = "killed"
    /\ NoRun
    /\ UNCHANGED <<injCache, torn, gamelog, watched, hist, injHistVars,
                   deriveVars, mirrorVars, pureVars, syncVars>>

\* the process is terminated inside `with open(cache_file, "wb") as f:
\* pickle.dump(season_injuries, f)`: open() has emptied the season's file
\* and the dump has not written all of the frame
TerminateInWrite ==
    /\ AtFetch
    /\ \E k \in InjuryCounts : hist' = Recorded(FetchRecord("cut", k))
    /\ injCache' = [injCache EXCEPT ![Head(seasonsLeft)] = File(<<>>)]
    /\ torn' = torn \cup {Head(seasonsLeft)}
    /\ called' = TRUE
    /\ ipc' = "killed"
    /\ NoRun
    /\ UNCHANGED <<gamelog, watched, startCache, fetchedRows, completed,
                   deriveVars, mirrorVars, pureVars, syncVars>>

NextInj ==
    \/ StartRun
    \/ SeasonLoadRaises
    \/ SeasonAllCached
    \/ SeasonBegin
    \/ SkipProcessedRow
    \/ FetchOk
    \/ FetchRateLimited
    \/ FetchError
    \/ SeasonEnd
    \/ Combine_Injuries
    \/ Terminate
    \/ TerminateInWrite

SpecInj == InitInj /\ [][NextInj]_vars

(***************************************************************************)
(* Properties of get_season_game_injuries                                  *)
(***************************************************************************)
SeasonOfGame(g) == IF g <= MaxInjGames THEN 1 ELSE 2

\* the rows of game g in a frame
RowsOfGame(frame, g) == Cardinality({i \in 1..Len(frame) : frame[i].gameId = g})

\* the first n fetch calls for the watched game all failed as rate-limited
RateLimitedOnFirst(n) ==
    /\ Len(hist) >= n
    /\ \A i \in 1..n : hist[i].result = "rate"

\* the run's loops are through
RunEnded == ipc \in {"combine", "done"}

\* C9: a game whose fetch is rate-limited on fewer than max_retries attempts
\* and then succeeds is recorded as processed and its rows are in the
\* persisted season cache exactly once; a game whose fetch is rate-limited on
\* all max_retries attempts is skipped, and none of its rows are in the
\* persisted cache at the end of the run.
C9_RetriedThenCachedOrSkipped ==
    /\ \A j \in 1..max_retries :
          (/\ Len(hist) >= j
           /\ hist[j].result = "ok"
           /\ \A i \in 1..(j - 1) : hist[i].result = "rate") =>
              /\ RowsOfGame(injCache[SeasonOfGame(watched)].rows, watched) = hist[j].rows
              /\ (ipc = "row" /\ Head(seasonsLeft) = SeasonOfGame(watched)) =>
                     watched \in processed_games
    /\ (RunEnded /\ RateLimitedOnFirst(max_retries)) =>
          RowsOfGame(injCache[SeasonOfGame(watched)].rows, watched) = 0

\* the first half of that statement alone, which the code keeps as long as
\* no write of the season's cache file is cut off
C9_RetriedThenCachedOnce ==
    \A j \in 1..max_retries :
        (/\ SeasonOfGame(watched) \notin torn
         /\ Len(hist) >= j
         /\ hist[j].result = "ok"
         /\ \A i \in 1..(j - 1) : hist[i].result = "rate") =>
            /\ Len(hist) = j
            /\ RowsOfGame(injCache[SeasonOfGame(watched)].rows, watched) = hist[j].rows
            /\ (ipc = "row" /\ Head(seasonsLeft) = SeasonOfGame(watched)) =>
                   watched \in processed_games

\* C10: within one run the fetch collaborator is called at most max_retries
\* times for any one game_id, a further attempt is made only after an attempt
\* that failed as rate-limited, and a failure of any other kind ends that
\* game's attempts for the rest of the run.
C10_BoundedRetriesPerGame ==
    /\ Len(hist) <= max_retries
    /\ \A i \in 2..Len(hist) : hist[i - 1].result = "rate"

\* what the code keeps instead: the bound holds for each row of the game log,
\* and a game has one row per team
C10_BoundedRetriesPerRow ==
    /\ Len(hist) <= 2 * max_retries
    /\ \A i \in 2..Len(hist) :
          hist[i - 1].result = "rate" \/ ~hist[i].backoff

\* the season's cache file is readable and holds the rows it held when the run
\* began followed by the rows of the games the run has fetched successfully
StartPlusFetched(s) ==
    /\ s \notin torn
    /\ LoadInjuryCache(injCache[s]) = LoadInjuryCache(startCache[s]) \o fetchedRows[s]

\* C11: at every point of the run between two per-game units of work the
\* persisted season cache holds exactly the rows cached at the start of the
\* run plus the rows of every game fetched successfully so far, and a
\* termination at any point loses at most the game in flight and leaves a
\* valid, readable cache.
C11_CacheDurableAtEveryPoint ==
    ipc \in {"season", "row", "combine", "done", "killed"} =>
        \A s \in Seasons : StartPlusFetched(s)

\* what the code keeps: the statement holds between the units of work, and
\* after a termination that does not fall into the write of a cache file
C11_DurableOutsideTheWrite ==
    (ipc # "idle" /\ torn = {}) => \A s \in Seasons : StartPlusFetched(s)

\* C12: across successive runs on the same game log, a game whose fetch
\* completed successfully in an earlier run, whatever number of injury rows it
\* returned, is recognised as processed from the persisted cache alone and is
\* not fetched again: no run stands before a fetch call for such a game.
C12_CompletedGameNotFetchedAgain ==
    AtFetch => CurrentGame \notin completed

\* what the code keeps: a game that has rows in the persisted season cache is
\* not fetched again
C12_CachedRowsNotFetchedAgain ==
    AtFetch => RowsOfGame(LoadInjuryCache(injCache[Head(seasonsLeft)]), CurrentGame) = 0

\* C19: every call of the per-game fetch except the first of the run is
\* immediately preceded by the randomized wait within delay_range, also a
\* retried attempt, the game after a skipped game and the first game of a
\* later season.
C19_DelayBeforeEveryLaterCall ==
    \A i \in 1..Len(hist) : hist[i].first \/ hist[i].delay

\* the seasons of the game log the run was given
RunSeasons == SeasonsOf(gamelog)

\* the watched game is in the game log and was not in its season's cache when
\* the run began
WatchedWasUncached ==
    /\ \E i \in 1..Len(gamelog) : gamelog[i].GAME_ID = watched
    /\ watched \notin ProcessedGames(LoadInjuryCache(startCache[SeasonOfGame(watched)]))

\* the frame a finished run has to return: the seasons' caches, concatenated
CachesConcatenated ==
    ConcatAll([i \in 1..Len(RunSeasons) |-> LoadInjuryCache(injCache[RunSeasons[i]])])

\* C20: whatever the fetches do, a run that is through has attempted the
\* fetch of every game of the game log that was not in its season's cache at
\* the start of the run, and has returned the concatenation of the seasons'
\* caches without raising.
C20_EveryUncachedGameAttempted ==
    ipc = "done" =>
        /\ WatchedWasUncached => Len(hist) >= 1
        /\ iret = CachesConcatenated

\* what the code keeps: the game is attempted unless the season's cache held
\* as many games as the season's game log, whichever games they were
C20_AttemptedUnlessCountsMatch ==
    ipc = "done" =>
        /\ (/\ WatchedWasUncached
            /\ RemainingGames(SeasonGamelog(gamelog, SeasonOfGame(watched)),
                              ProcessedGames(LoadInjuryCache(startCache[SeasonOfGame(watched)])))
               # 0)
           => Len(hist) >= 1
        /\ iret = CachesConcatenated

\* the steps of a running call
RunStep ==
    \/ SeasonLoadRaises
    \/ SeasonAllCached
    \/ SeasonBegin
    \/ SkipProcessedRow
    \/ FetchOk
    \/ FetchRateLimited
    \/ FetchError
    \/ SeasonEnd
    \/ Combine_Injuries

\* a running call goes on taking steps
SpecInjFair == SpecInj /\ WF_vars(RunStep)

\* the call comes to an end whatever the fetches do; it raises only on a
\* cache file that was cut off
C20_RunComesToAnEnd ==
    (ipc \in {"season", "row", "combine"}) ~> (ipc \in {"done", "killed", "raised"})

C20_RaisesOnlyOnATornCache ==
    ipc = "raised" => torn # {}

(***************************************************************************)
(* The feature catalog as create_pregame_features, add_opponent_features   *)
(* and get_feature_columns read it.  Only the column names of the data     *)
(* matter here, so the data is its list of column names.                   *)
(***************************************************************************)
MaxTypes == 2           \* feature types in a catalog

InSeq(x, s) == \E i \in 1..Len(s) : s[i] = x

\* the feature-type entries a catalog can list; column_name "" stands for an
\* entry without that field (feature_type.get("column_name") is None)
FeatureTypes ==
    {[name |-> "rolling_avg", enabled |-> e, suffix |-> "_ROLL", column_name |-> ""] :
        e \in BOOLEAN}
    \cup {[name |-> "season_avg", enabled |-> e, suffix |-> "_SEASON", column_name |-> ""] :
        e \in BOOLEAN}
    \cup {[name |-> "win_pct_season", enabled |-> e, suffix |-> "",
           column_name |-> "WIN_PCT_SEASON"] : e \in BOOLEAN}
    \cup {[name |-> "median", enabled |-> e, suffix |-> "_MED", column_name |-> ""] :
        e \in BOOLEAN}

\* the catalogs: every feature type is listed at most once
Catalogs ==
    {c \in [stat_columns : {<<"PTS">>, <<"PTS", "AST">>},
            feature_types : SeqOfSeqsUpTo(FeatureTypes, MaxTypes),
            additional_features : {<<>>, <<"INJURED_PLAYERS">>}] :
        \A i, j \in 1..Len(c.feature_types) :
            i # j => c.feature_types[i].name # c.feature_types[j].name}

\* the columns of the raw data: the game's own statistics and its result
RawColumns == {"GAME_ID", "TEAM_ID", "PTS", "AST", "WIN"}

\* the column lists the data can have before the pipeline runs
DataColumns ==
    {<<"GAME_ID", "TEAM_ID", "PTS">> \o a \o w \o i \o p :
        a \in {<<>>, <<"AST">>}, w \in {<<>>, <<"WIN">>},
        i \in {<<>>, <<"INJURED_PLAYERS">>}, p \in {<<>>, <<"WIN_PCT_SEASON">>}}

\* pregame_features[key] = ... for each key: a dict keeps a key once, at the
\* place of its first insertion
RECURSIVE AddKeys(_, _)
AddKeys(feats, keys) ==
    IF keys = <<>> THEN feats
    ELSE AddKeys(IF InSeq(Head(keys), feats) THEN feats ELSE Append(feats, Head(keys)),
                 Tail(keys))

\* [f"{stat}{suffix}" for stat in stats]
Suffixed(stats, suffix) == [i \in 1..Len(stats) |-> stats[i] \o suffix]

\* the loop of create_pregame_features over config["feature_types"]: the
\* features computed, and whether the loop ended or raised ValueError
RECURSIVE DeriveLoop(_, _, _)
DeriveLoop(types, stat_cols, feats) ==
    IF types = <<>> THEN [outcome |-> "returned", computed |-> feats]
    ELSE IF ~Head(types).enabled THEN DeriveLoop(Tail(types), stat_cols, feats)
    ELSE IF Head(types).name = "rolling_avg"
    THEN DeriveLoop(Tail(types), stat_cols,
                    AddKeys(feats, Suffixed(stat_cols, Head(types).suffix)))
    ELSE [outcome |-> "raised", computed |-> feats]

\* create_pregame_features on the columns cols: the outcome, the features the
\* loop computed, and the columns of the result (without WIN)
DeriveColumns(cols, cat) ==
    LET stat_cols == SelectSeq(cat.stat_columns, LAMBDA c : InSeq(c, cols))
        loop      == DeriveLoop(cat.feature_types, stat_cols, <<>>)
    IN  [outcome |-> loop.outcome, computed |-> loop.computed,
         ret |-> IF loop.outcome = "returned"
                 THEN SelectSeq(cols \o loop.computed, LAMBDA c : c # "WIN")
                 ELSE <<>>]

\* the opp_columns add_opponent_features collects
RECURSIVE OppColumns(_, _, _)
OppColumns(types, cols, cat) ==
    IF types = <<>>
    THEN SelectSeq(cat.additional_features, LAMBDA c : InSeq(c, cols))
    ELSE (IF Head(types).enabled /\ Head(types).name = "rolling_avg"
          THEN SelectSeq(Suffixed(cat.stat_columns, Head(types).suffix),
                         LAMBDA c : InSeq(c, cols))
          ELSE <<>>)
         \o OppColumns(Tail(types), cols, cat)

\* add_opponent_features on the columns cols: it never raises on the catalog
MirrorColumns(cols, cat) ==
    LET opp == OppColumns(cat.feature_types, cols, cat)
    IN  [outcome |-> "returned", computed |-> opp,
         ret |-> cols \o [i \in 1..Len(opp) |-> "OPP_" \o opp[i]]]

\* the feature_cols get_feature_columns collects before the opponent copies
RECURSIVE OwnFeatureColumns(_, _, _)
OwnFeatureColumns(types, cols, cat) ==
    IF types = <<>>
    THEN SelectSeq(cat.additional_features, LAMBDA c : InSeq(c, cols))
    ELSE (IF ~Head(types).enabled THEN <<>>
          ELSE IF Head(types).name \in {"rolling_avg", "season_avg"}
          THEN SelectSeq(Suffixed(cat.stat_columns, Head(types).suffix),
                         LAMBDA c : InSeq(c, cols))
          ELSE IF Head(types).column_name # "" /\ InSeq(Head(types).column_name, cols)
          THEN <<Head(types).column_name>>
          ELSE <<>>)
         \o OwnFeatureColumns(Tail(types), cols, cat)

\* the list with every raw statistic of the data put in front
WithRawStatistics(own, cols, cat) ==
    SelectSeq(cat.stat_columns, LAMBDA c : InSeq(c, cols)) \o own
WithoutRawStatistics(own, cols, cat) == own

\* get_feature_columns on the columns cols
GetFeatureColumns(cols, cat) ==
    LET own == WithoutRawStatistics(OwnFeatureColumns(cat.feature_types, cols, cat), cols, cat)
        opp == SelectSeq([i \in 1..Len(own) |-> "OPP_" \o own[i]], LAMBDA c : InSeq(c, cols))
    IN  [outcome |-> "returned", computed |-> <<>>, ret |-> own \o opp]

InitCatalog ==
    /\ catalog \in Catalogs
    /\ columns \in DataColumns
    /\ did = {}
    /\ lastCall = NoCatalogCall
    /\ prevSelect = NoCatalogCall
    /\ CleanIdle
    /\ MergeIdle
    /\ DeriveIdle
    /\ MirrorIdle
    /\ SyncIdle
    /\ InjIdle

CallRecord(op, out) ==
    [op |-> op, outcome |-> out.outcome, computed |-> out.computed, ret |-> out.ret,
     before |-> columns]

\* data = create_pregame_features(data)
DeriveCall ==
    /\ "derive" \notin did
    /\ lastCall.outcome # "raised"
    /\ LET out == DeriveColumns(columns, catalog)
       IN  /\ lastCall' = CallRecord("derive", out)
           /\ columns' = IF out.outcome = "returned" THEN out.ret ELSE columns
    /\ did' = did \cup {"derive"}
    /\ UNCHANGED <<catalog, prevSelect, cleanVars, mergeVars, deriveVars, mirrorVars, syncVars, injVars>>

\* data = add_opponent_features(data)
MirrorCall ==
    /\ "mirror" \notin did
    /\ LET out == MirrorColumns(columns, catalog)
       IN  /\ lastCall' = CallRecord("mirror", out)
           /\ columns' = out.ret
    /\ did' = did \cup {"mirror"}
    /\ UNCHANGED <<catalog, prevSelect, cleanVars, mergeVars, deriveVars, mirrorVars, syncVars, injVars>>

\* get_feature_columns(data)
SelectCall ==
    /\ lastCall' = CallRecord("select", GetFeatureColumns(columns, catalog))
    /\ prevSelect' = IF lastCall.op = "select" THEN lastCall ELSE prevSelect
    /\ UNCHANGED <<catalog, columns, did, cleanVars, mergeVars, deriveVars, mirrorVars, syncVars, injVars>>

NextCatalog == DeriveCall \/ MirrorCall \/ SelectCall

SpecCatalog == InitCatalog /\ [][NextCatalog]_vars

(***************************************************************************)
(* Properties of the catalog                                               *)
(***************************************************************************)
\* the only feature type the pipeline knows how to derive
RecognizedTypes == {"rolling_avg"}

HasUnrecognizedType(cat) ==
    \E i \in 1..Len(cat.feature_types) : cat.feature_types[i].name \notin RecognizedTypes

\* C14: with a catalog that lists a feature type of an unrecognized name,
\* enabled or not and wherever it stands in feature_types, a call of
\* create_pregame_features, add_opponent_features or get_feature_columns
\* fails with a configuration error before any feature is computed.
C14_UnrecognizedTypeIsFatal ==
    (lastCall.op # "none" /\ HasUnrecognizedType(catalog)) =>
        (lastCall.outcome = "raised" /\ lastCall.computed = <<>>)

\* what the code keeps: create_pregame_features raises when it comes to an
\* enabled feature type that is not rolling_avg
C14_EnabledTypeRaisesInDerive ==
    (/\ lastCall.op = "derive"
     /\ \E i \in 1..Len(catalog.feature_types) :
           /\ catalog.feature_types[i].enabled
           /\ catalog.feature_types[i].name # "rolling_avg")
    => lastCall.outcome = "raised"

\* the names the catalog marks as pre-game features: a configured statistic
\* joined with an enabled feature type's suffix, an enabled feature type's
\* column_name, or a configured additional feature
Marked(n, cat) ==
    \/ \E i \in 1..Len(cat.feature_types) :
          /\ cat.feature_types[i].enabled
          /\ \/ \E k \in 1..Len(cat.stat_columns) :
                   n = cat.stat_columns[k] \o cat.feature_types[i].suffix
             \/ cat.feature_types[i].column_name # "" /\ n = cat.feature_types[i].column_name
    \/ InSeq(n, cat.additional_features)

SameColumns(a, b) == {a[i] : i \in 1..Len(a)} = {b[i] : i \in 1..Len(b)}

NA == -1                \* the missing value, apart from every value a cell can hold
target_col == "WL"
CleanColumns == <<"A", "WL", "B">>
NaThresholds == {<<1, 2>>, <<1, 3>>}    \* na_threshold as numerator, denominator

\* the values a row can have in each column
CleanValues == [A : {NA, 0, 1}, WL : {NA, 1}, B : {NA, 1}]

\* a frame with the default RangeIndex
Indexed(vals) ==
    [columns |-> CleanColumns,
     rows |-> [i \in 1..Len(vals) |-> [idx |-> i, val |-> vals[i]]]]

\* df.dropna(subset=cols): the rows with no NA in any of cols
DropNaFilled(df, cols) ==
    [df EXCEPT !.rows =
        [i \in 1..Len(df.rows) |->
            [df.rows[i] EXCEPT !.val =
                [c \in DOMAIN df.rows[i].val |->
                    IF InSeq(c, cols) /\ df.rows[i].val[c] = NA THEN 0
                    ELSE df.rows[i].val[c]]]]]
DropNa(df, cols) ==
    [df EXCEPT !.rows =
        SelectSeq(df.rows, LAMBDA r : \A k \in 1..Len(cols) : r.val[cols[k]] # NA)]

\* df.drop(columns=cols)
DropColumns(df, cols) ==
    [df EXCEPT !.columns = SelectSeq(df.columns, LAMBDA c : ~InSeq(c, cols))]

\* the number of NA cells of column c
NaCount(rows, c) == Cardinality({i \in 1..Len(rows) : rows[i].val[c] = NA})

\* na_proportions[na_proportions > na_threshold].index.tolist(): isna().mean()
\* of a frame without rows is NaN, which is not greater than the threshold
HighNaOfInput(df, input, thr) ==
    SelectSeq(df.columns,
              LAMBDA c : NaCount(input.rows, c) * thr[2] > thr[1] * Len(input.rows))
HighNaCols(df, input, thr) ==
    SelectSeq(df.columns,
              LAMBDA c : NaCount(df.rows, c) * thr[2] > thr[1] * Len(df.rows))

\* the numeric columns other than the target that have a value and whose
\* every value is zero
AllZeroCols(df, numeric) ==
    SelectSeq(df.columns,
              LAMBDA c : /\ c \in numeric
                         /\ c # target_col
                         /\ \E i \in 1..Len(df.rows) : df.rows[i].val[c] # NA
                         /\ \A i \in 1..Len(df.rows) : df.rows[i].val[c] \in {NA, 0})

\* clean_data(data, target_col, na_threshold): the cleaned frame and what the
\* steps removed
CleanData(df, thr, numeric) ==
    LET step1 == DropNa(df, <<target_col>>)
        high  == HighNaCols(step1, df, thr)
        step2 == DropColumns(step1, high)
        zero  == AllZeroCols(step2, numeric)
        step3 == DropColumns(step2, zero)
        predictor_cols == SelectSeq(step3.columns, LAMBDA c : c # target_col)
    IN  [frame |-> DropNa(step3, predictor_cols),
         report |-> [after_target |-> step1.rows, high_na_cols |-> high,
                     all_zero_cols |-> zero]]

InitClean ==
    /\ cparams \in [na_threshold : NaThresholds, numeric : {{"A", "B"}, {"B"}}]
    /\ \E vals \in SeqOfSeqsUpTo(CleanValues, MaxCleanRows) : cdata = Indexed(vals)
    /\ cdataAfter = cdata
    /\ cout = NoFrame
    /\ creport = NoReport
    /\ cout2 = NoFrame
    /\ cpc = "input"
    /\ CatalogIdle
    /\ MergeIdle
    /\ DeriveIdle
    /\ MirrorIdle
    /\ SyncIdle
    /\ InjIdle

\* cleaned = clean_data(data): the call works on data.copy()
Clean ==
    /\ cpc = "input"
    /\ LET out == CleanData(cdata, cparams.na_threshold, cparams.numeric)
       IN  /\ cout' = out.frame
           /\ creport' = out.report
    /\ cdataAfter' = cdata
    /\ cpc' = "cleaned"
    /\ UNCHANGED <<cparams, cdata, cout2, catalogVars, mergeVars, deriveVars, mirrorVars, syncVars,
                   injVars>>

\* clean_data(cleaned), with the same parameters
CleanAgain ==
    /\ cpc = "cleaned"
    /\ cout2' = CleanData(cout, cparams.na_threshold, cparams.numeric).frame
    /\ cpc' = "recleaned"
    /\ UNCHANGED <<cparams, cdata, cdataAfter, cout, creport, catalogVars, mergeVars,
                   deriveVars, mirrorVars, syncVars, injVars>>

NextClean == Clean \/ CleanAgain

SpecClean == InitClean /\ [][NextClean]_vars

(***************************************************************************)
(* Properties of clean_data                                                *)
(***************************************************************************)
\* C15: clean is idempotent: clean(clean(d)) has exactly the rows and the
\* columns of clean(d).
C15_CleanIsIdempotent ==
    cpc = "recleaned" => cout2 = cout

\* what the code keeps: the second call removes no row, and no column other
\* than a numeric one that the first call's row removal left all zero
C15_SecondCleanDropsOnlyZeroColumns ==
    cpc = "recleaned" =>
        /\ cout2.rows = cout.rows
        /\ cout2.columns = DropColumns(cout, AllZeroCols(cout, cparams.numeric)).columns

\* the rows of the input that have a target value
TargetPresent == SelectSeq(cdata.rows, LAMBDA r : r.val[target_col] # NA)

\* the index labels of the rows of a frame, in order
IndexOf(df) == [i \in 1..Len(df.rows) |-> df.rows[i].idx]

\* C16: the output of clean has a subset of the input's columns and of its
\* rows, both in the input's relative order, every kept cell has the value it
\* had in the input, and the input dataset is not modified.
C16_OnlyShrinksAndKeepsOrder ==
    cpc \in {"cleaned", "recleaned"} =>
        /\ cout.columns = SelectSeq(cdata.columns, LAMBDA c : InSeq(c, cout.columns))
        /\ IndexOf(cout) = SelectSeq(IndexOf(cdata), LAMBDA i : InSeq(i, IndexOf(cout)))
        /\ \A i \in 1..Len(cout.rows), k \in 1..Len(cout.columns) :
              cout.rows[i].val[cout.columns[k]] =
                  cdata.rows[cout.rows[i].idx].val[cout.columns[k]]
        /\ cdataAfter = cdata

\* C16 witness: a call that removed a row from the middle and a column, and
\* kept two rows and two columns
C16_Witness ==
    /\ cpc = "cleaned"
    /\ Len(cdata.rows) = 3
    /\ IndexOf(cout) = <<1, 3>>
    /\ Len(cout.columns) = 2

\* C18 as stated: after the target-missing rows are removed, a column that is
\* missing in more than na_threshold of the rows of the dataset passed to
\* clean is absent from the output, and a column at or below the threshold is
\* not removed by the high-NA rule.
C18_HighNaOfInputRemoved ==
    cpc \in {"cleaned", "recleaned"} =>
        /\ \A i \in 1..Len(cout.rows) : cout.rows[i].val[target_col] # NA
        /\ \A k \in 1..Len(cdata.columns) :
              LET c == cdata.columns[k]
              IN  IF NaCount(cdata.rows, c) * cparams.na_threshold[2]
                         > cparams.na_threshold[1] * Len(cdata.rows)
                  THEN ~InSeq(c, cout.columns)
                  ELSE ~InSeq(c, creport.high_na_cols)

\* C18 with the proportion taken where the code takes it: over the rows that
\* are left once the target-missing rows are removed.  A column missing in
\* more than na_threshold of those rows is absent from the output, and a
\* column at or below the threshold is not removed by the high-NA rule.
C18_HighNaAmongTargetRowsRemoved ==
    cpc \in {"cleaned", "recleaned"} =>
        /\ \A i \in 1..Len(cout.rows) : cout.rows[i].val[target_col] # NA
        /\ creport.after_target = TargetPresent
        /\ \A k \in 1..Len(cdata.columns) :
              LET c == cdata.columns[k]
              IN  IF NaCount(TargetPresent, c) * cparams.na_threshold[2]
                         > cparams.na_threshold[1] * Len(TargetPresent)
                  THEN ~InSeq(c, cout.columns) /\ InSeq(c, creport.high_na_cols)
                  ELSE ~InSeq(c, creport.high_na_cols)

\* C18 witness: with na_threshold 1/2, a target-missing row was removed, B is
\* missing in both of the two rows left and is removed, A is missing in one
\* of them (at the threshold) and is kept
C18_Witness ==
    /\ cpc = "cleaned"
    /\ cparams.na_threshold = <<1, 2>>
    /\ Len(cdata.rows) = 3
    /\ Len(TargetPresent) = 2
    /\ NaCount(TargetPresent, "B") = 2
    /\ NaCount(TargetPresent, "A") = 1
    /\ ~InSeq("B", cout.columns)
    /\ InSeq("A", cout.columns)

(***************************************************************************)
(* merge_injuries_with_games                                               *)
(*                                                                         *)
(* A game-log row keeps its place in the input as KEY and has no           *)
(* INJURED_PLAYERS column yet; an injury record is one inactive player.    *)
(***************************************************************************)
MergeGames == {1, 2}
MergeTeams == {1, 2}

\* the game logs: rows of any game and team, a (game, team) may come twice
MergeLogs ==
    {[i \in 1..Len(s) |-> [KEY |-> i, GAME_ID |-> s[i][1], TEAM_ID |-> s[i][2]]] :
        s \in SeqOfSeqsUpTo(MergeGames \X MergeTeams, MaxMergeRows)}

\* the injuries logs: None, or a frame of inactive players
InjuriesLogs ==
    {NoInjuriesLog}
    \cup {[present |-> TRUE,
           rows |-> [i \in 1..Len(s) |-> [gameId |-> s[i][1], teamId |-> s[i][2],
                                          player |-> i]]] :
             s \in SeqOfSeqsUpTo(MergeGames \X MergeTeams, MaxMergeRows)}

\* the (gameId, teamId) groups in the order groupby puts them: sorted
RECURSIVE SortedKeys(_)
SortedKeys(K) ==
    IF K = {} THEN <<>>
    ELSE LET m == CHOOSE x \in K :
                     \A y \in K : x[1] < y[1] \/ (x[1] = y[1] /\ x[2] <= y[2])
         IN  <<m>> \o SortedKeys(K \ {m})

\* injuries_log.groupby(['gameId', 'teamId']).size().reset_index(
\* name='INJURED_PLAYERS'), with the key columns renamed GAME_ID, TEAM_ID
GroupSize(inj) ==
    LET keys == SortedKeys({<<inj[i].gameId, inj[i].teamId>> : i \in 1..Len(inj)})
    IN  [k \in 1..Len(keys) |->
            [GAME_ID |-> keys[k][1], TEAM_ID |-> keys[k][2],
             INJURED_PLAYERS |->
                 Cardinality({i \in 1..Len(inj) :
                                 inj[i].gameId = keys[k][1] /\ inj[i].teamId = keys[k][2]})]]

\* the rows of the right frame with the key of the left row
MatchesOf(row, right) ==
    SelectSeq(right, LAMBDA r : r.GAME_ID = row.GAME_ID /\ r.TEAM_ID = row.TEAM_ID)

Joined(row, n) ==
    [KEY |-> row.KEY, GAME_ID |-> row.GAME_ID, TEAM_ID |-> row.TEAM_ID,
     INJURED_PLAYERS |-> n]

\* game_log.merge(injury_counts, on=['GAME_ID', 'TEAM_ID'], how='left'): in
\* the order of the left rows, a row for every match of a left row, and a
\* row with a missing INJURED_PLAYERS for a left row without a match
InnerMerge(left, right) ==
    ConcatAll([i \in 1..Len(left) |->
        LET m == MatchesOf(left[i], right)
        IN  [j \in 1..Len(m) |-> Joined(left[i], m[j].INJURED_PLAYERS)]])
LeftMerge(left, right) ==
    ConcatAll([i \in 1..Len(left) |->
        LET m == MatchesOf(left[i], right)
        IN  IF m = <<>> THEN <<Joined(left[i], NA)>>
            ELSE [j \in 1..Len(m) |-> Joined(left[i], m[j].INJURED_PLAYERS)]])

\* result['INJURED_PLAYERS'].fillna(0).astype(int)
FillNaZero(df) ==
    [i \in 1..Len(df) |->
        [df[i] EXCEPT !.INJURED_PLAYERS = IF @ = NA THEN 0 ELSE @]]

\* merge_injuries_with_games(game_log, injuries_log)
MergeInjuriesWithGames(game_log, injuries_log) ==
    IF ~injuries_log.present \/ injuries_log.rows = <<>>
    THEN [i \in 1..Len(game_log) |-> Joined(game_log[i], 0)]
    ELSE FillNaZero(LeftMerge(game_log, GroupSize(injuries_log.rows)))

InitMerge ==
    /\ jlog \in MergeLogs
    /\ jinj \in InjuriesLogs
    /\ jlogAfter = jlog
    /\ jinjAfter = jinj
    /\ jout = <<>>
    /\ jpc = "input"
    /\ CatalogIdle
    /\ CleanIdle
    /\ DeriveIdle
    /\ MirrorIdle
    /\ SyncIdle
    /\ InjIdle

\* result = merge_injuries_with_games(game_log, injuries_log): the call works
\* on a copy or on the frames merge and groupby return
MergeCall ==
    /\ jpc = "input"
    /\ jout' = MergeInjuriesWithGames(jlog, jinj)
    /\ jlogAfter' = jlog
    /\ jinjAfter' = jinj
    /\ jpc' = "returned"
    /\ UNCHANGED <<jlog, jinj, catalogVars, cleanVars, deriveVars, mirrorVars, syncVars,
                   injVars>>

NextMerge == MergeCall

SpecMerge == InitMerge /\ [][NextMerge]_vars

(***************************************************************************)
(* Properties of merge_injuries_with_games                                 *)
(***************************************************************************)
\* the injury records of the game and team of a game-log row
InjuryRecordsOf(row) ==
    Cardinality({k \in 1..Len(jinj.rows) :
                    /\ jinj.rows[k].gameId = row.GAME_ID
                    /\ jinj.rows[k].teamId = row.TEAM_ID})

\* C21: merge_injuries_with_games returns exactly one row per game-log row,
\* none dropped or duplicated, with INJURED_PLAYERS the number of injury
\* records of that row's (game_id, team_id), 0 when there are none or when
\* the injuries log is empty or absent; the inputs are not modified.
C21_OneRowPerGameLogRowWithCount ==
    jpc = "returned" =>
        /\ Len(jout) = Len(jlog)
        /\ \A i \in 1..Len(jlog) :
              /\ jout[i].KEY = jlog[i].KEY
              /\ jout[i].GAME_ID = jlog[i].GAME_ID
              /\ jout[i].TEAM_ID = jlog[i].TEAM_ID
              /\ jout[i].INJURED_PLAYERS = InjuryRecordsOf(jlog[i])
        /\ jlogAfter = jlog
        /\ jinjAfter = jinj

\* C21 witness: a game log with the same (game, team) on two rows and a row
\* of another team, and two injury records of the first team: both of its
\* rows get 2 and the other row gets 0
C21_Witness ==
    /\ jpc = "returned"
    /\ Len(jlog) = 3
    /\ jinj.present /\ Len(jinj.rows) = 3
    /\ jlog[1].GAME_ID = jlog[2].GAME_ID /\ jlog[1].TEAM_ID = jlog[2].TEAM_ID
    /\ InjuryRecordsOf(jlog[1]) = 2
    /\ InjuryRecordsOf(jlog[3]) = 0
    /\ jout[1].INJURED_PLAYERS = 2
    /\ jout[2].INJURED_PLAYERS = 2
    /\ jout[3].INJURED_PLAYERS = 0

\* C21 witness for the absent injuries log: every row gets 0
C21_WitnessAbsent ==
    /\ jpc = "returned"
    /\ ~jinj.present
    /\ Len(jlog) = 2
    /\ jout[1].INJURED_PLAYERS = 0 /\ jout[2].INJURED_PLAYERS = 0

====
